---------------------------- MODULE Spec2Model ----------------------------
(***************************************************************************)
(* xdg-desktop-file-override: the `clean` and `generate` runs of main.rs   *)
(* over the override directory <data-home>/applications.                   *)
(*                                                                         *)
(* A file's content is a sequence of tokens.  Two tokens are atomic        *)
(* multi-byte literals, the section header "[Desktop Entry]" and the key   *)
(* "X-XDG-Desktop-File-Override-Version"; every other token is one         *)
(* character.  No run of the other tokens spells either literal, so the    *)
(* byte-level str::contains / str::find of the code coincide with token    *)
(* membership, and byte offsets are sums of the tokens' byte lengths.      *)
(***************************************************************************)
EXTENDS Integers, Sequences, FiniteSets, TLC

\* --------------------------------------------------------------- bounds
\* Longest generator chain a configuration of the model holds.
MaxGenerators == 2
\* Most directories XDG_CONFIG_DIRS lists.
MaxConfigDirs == 2

\* ------------------------------------------------------------- contents
HDR  == "[Desktop Entry]"
KEY  == "X-XDG-Desktop-File-Override-Version"
VER  == "0.1.0"
NL   == "\n"
\* A byte that is not valid UTF-8, and U+FFFD, which replaces it on decoding.
BAD  == "0xFF"
REPL == "U+FFFD"

\* "[Desktop Entry]".len()
HeaderLen == 15

\* Bytes a token takes in the file.
ByteLen(tok) ==
    CASE tok = HDR  -> HeaderLen
      [] tok = KEY  -> 35
      [] tok = VER  -> 5
      [] tok = REPL -> 3
      [] OTHER      -> 1

RECURSIVE Bytes(_)
Bytes(c) == IF c = <<>> THEN 0 ELSE ByteLen(Head(c)) + Bytes(Tail(c))

\* str::contains(pat) for a pattern that is one token.
Contains(c, tok) == \E i \in DOMAIN c : c[i] = tok

\* str::find(pat): the index of the first occurrence, 0 for None.
Find(c, tok) ==
    IF Contains(c, tok)
    THEN CHOOSE i \in DOMAIN c : c[i] = tok /\ \A j \in 1..(i - 1) : c[j] # tok
    ELSE 0

\* Valid UTF-8: what read_to_string demands of a file.
IsUtf8(c) == ~Contains(c, BAD)

\* String::from_utf8_lossy: every invalid byte becomes U+FFFD.
FromUtf8Lossy(c) == [i \in DOMAIN c |-> IF c[i] = BAD THEN REPL ELSE c[i]]

\* "\n{override_property}={CARGO_PKG_VERSION}"
MarkerText == <<NL, KEY, "=", VER>>

\* String::insert_str(at, s): panics unless `at` is a char boundary within
\* the string.  at is a byte offset; the result's ok is FALSE on a panic.
InsertStr(c, at, s) ==
    LET cuts == {k \in 0..Len(c) : Bytes(SubSeq(c, 1, k)) = at}
    IN  IF cuts = {}
        THEN [ok |-> FALSE, text |-> c]
        ELSE LET k == CHOOSE k \in cuts : TRUE
             IN  [ok |-> TRUE,
                  text |-> SubSeq(c, 1, k) \o s \o SubSeq(c, k + 1, Len(c))]

\* The byte offset the code inserts the marker at:
\* find("[Desktop Entry]").unwrap_or_else(|| 0) + "[Desktop Entry]".len()
MainSectionStartAtHeader(c) ==
    IF Find(c, HDR) = 0 THEN 0 ELSE Bytes(SubSeq(c, 1, Find(c, HDR) - 1))
MainSectionStart(c) ==
    (IF Find(c, HDR) = 0 THEN 0 ELSE Bytes(SubSeq(c, 1, Find(c, HDR) - 1)))
        + HeaderLen

\* The stamping of write_new_desktop_file: the content as it would be
\* written, or a panic.
StampNever(c) == [ok |-> TRUE, text |-> c]
Stamp(c) ==
    IF Contains(c, KEY)
    THEN [ok |-> TRUE, text |-> c]
    ELSE InsertStr(c, MainSectionStart(c), MarkerText)

\* The Cleaner's test of a file's content.
HasMarkerNever(c) == FALSE
HasMarkerThisVersion(c) ==
    \E i \in 1..(Len(c) - 2) : c[i] = KEY /\ c[i + 1] = "=" /\ c[i + 2] = VER
HasMarker(c) == Contains(c, KEY)

\* ---------------------------------------------------------------- names
FooDesktop == [stem |-> "foo", ext |-> "desktop"]
BarDesktop == [stem |-> "bar", ext |-> "desktop"]
NotesTxt   == [stem |-> "notes", ext |-> "txt"]

\* Path::extension() == Some("desktop")
IsDesktopAny(name) == TRUE
IsDesktop(name) == name.ext = "desktop"


\* ------------------------------------------------------- regex filters
FooFilter == "^foo"
AnyFilter == ".*"
BadFilter == "("

\* Regex::new(filter) is Ok.
IsValidRegex(filter) == filter # BadFilter

\* Regex::is_match(file_name) of a valid filter, on the base name.
IsMatchAlways(filter, name) == TRUE
IsMatch(filter, name) ==
    CASE filter = FooFilter -> name.stem = "foo"
      [] filter = AnyFilter -> TRUE
      [] OTHER              -> FALSE

\* --------------------------------------------------- generator commands
\* What a command does as a child process: whether it can be spawned,
\* whether it reads its standard input, its exit status and its standard
\* output as a function of its input.
TrAB   == <<"tr", "A", "B">>
TrBC   == <<"tr", "B", "C">>
TrBA   == <<"tr", "B", "A">>
SedKey == <<"sed", "-e", "s/^\\[Desktop Entry\\]$/&\\nX-XDG-Desktop-File-Override-Version=1/">>
False  == <<"false">>
NoSuch == <<"/no/such/command">>

Tr(input, from, to) ==
    [i \in DOMAIN input |-> IF input[i] = from THEN to ELSE input[i]]

RECURSIVE AfterHeader(_, _)
AfterHeader(input, ins) ==
    IF input = <<>> THEN <<>>
    ELSE IF Head(input) = HDR
         THEN <<HDR>> \o ins \o AfterHeader(Tail(input), ins)
         ELSE <<Head(input)>> \o AfterHeader(Tail(input), ins)

CanSpawn(command) == command # NoSuch
ReadsStdin(command) == command # False
ExitSuccess(command) == command # False
Stdout(command, input) ==
    CASE command = TrAB   -> Tr(input, "A", "B")
      [] command = TrBC   -> Tr(input, "B", "C")
      [] command = TrBA   -> Tr(input, "B", "A")
      [] command = SedKey -> AfterHeader(input, <<NL, KEY, "=", "1">>)
      [] OTHER            -> <<>>

\* ------------------------------------------------------- configuration
Generator(filter, name, command) ==
    [filter |-> filter, name |-> name, command |-> command]

GeneratorPool ==
    { Generator(FooFilter, "rename", TrAB),
      Generator(AnyFilter, "again", TrBC),
      Generator(AnyFilter, "restore", TrBA),
      Generator(AnyFilter, "stamp", SedKey),
      Generator(AnyFilter, "reject", False),
      Generator(AnyFilter, "missing", NoSuch),
      Generator(BadFilter, "broken", TrAB) }

Chains == UNION {[1..n -> GeneratorPool] : n \in 0..MaxGenerators}

\* The configuration file as generate_files finds it: absent from every
\* searched directory, present but not deserializable, or parsed.
Configs ==
    { [status |-> "missing", generators |-> <<>>],
      [status |-> "malformed", generators |-> <<>>] }
    \cup { [status |-> "ok", generators |-> g] : g \in Chains }

\* ---------------------------------------------------------- file system
OrigA        == <<HDR, NL, "N", "=", "A">>
OrigB        == <<HDR, NL, "N", "=", "B">>
HeadlessA    == <<"N", "=", "A">>
HeadlessLong == <<"N", "=", "A", NL, "E", "x", "e", "c", "=", "a", "p", "p",
                  "l", "i", "c", "a", "t", "i", "o", "n">>
Unreadable   == <<HDR, NL, BAD>>
UserPlain    == <<HDR, NL, "N", "=", "U">>
UserCopy     == <<HDR, NL, KEY, "=", VER, NL, "N", "=", "U">>
OldOverride  == <<HDR, NL, KEY, "=", "0", NL, "N", "=", "B">>
NotesMarked  == <<"s", "e", "e", " ", KEY>>

NoFiles == [n \in {} |-> <<>>]

\* A directory <base>/applications: whether it exists, and its entries.
Dir(files) == [exists |-> TRUE, files |-> files]
NoDir == [exists |-> FALSE, files |-> NoFiles]

\* One element of XDG_DATA_DIRS: a system directory with its own
\* applications directory, or the data-home directory itself.
Sys(dir) == [kind |-> "sys", dir |-> dir]
DataHome == [kind |-> "home", dir |-> NoDir]

DataDirLayouts ==
    { << Sys(Dir(FooDesktop :> OrigA)),
         Sys(Dir(FooDesktop :> OrigB @@ BarDesktop :> OrigA)) >>,
      << Sys(Dir(FooDesktop :> OrigB)),
         Sys(Dir(FooDesktop :> OrigA @@ NotesTxt :> OrigA)) >>,
      << Sys(Dir(FooDesktop :> HeadlessLong)),
         Sys(Dir(FooDesktop :> HeadlessA)) >>,
      << Sys(NoDir),
         Sys(Dir(FooDesktop :> Unreadable @@ BarDesktop :> OrigA)) >>,
      << DataHome,
         Sys(Dir(FooDesktop :> OrigA)) >>,
      << Sys(Dir(FooDesktop :> OrigA)),
         DataHome >> }

HomeLayouts ==
    { NoDir,
      Dir(NoFiles),
      Dir(FooDesktop :> UserPlain @@ BarDesktop :> OldOverride),
      Dir(FooDesktop :> OldOverride @@ NotesTxt :> NotesMarked),
      Dir(FooDesktop :> UserCopy @@ BarDesktop :> OldOverride),
      Dir(FooDesktop :> Unreadable @@ BarDesktop :> OldOverride) }

\* All orders in which read_dir may yield the entries of a directory.
Orders(S) ==
    {q \in [1..Cardinality(S) -> S] : \A i, j \in DOMAIN q : i # j => q[i] # q[j]}

Remove(files, n) == [m \in DOMAIN files \ {n} |-> files[m]]

\* --------------------------------------------- configuration lookup
CONFIG_FILE_PATH == "xdg-desktop-file-override/config.yaml"
\* A directory name is a string, a sequence of tokens; <<>> is the empty one.
EtcXdg == <<"/etc/xdg">>

\* An environment variable: not set, or set to a value.
Unset == [set |-> FALSE, val |-> <<>>]
Set(v) == [set |-> TRUE, val |-> v]

\* PathBuf::from(base).join(relative): an empty base gives a path relative
\* to the current directory.
Join(base, relative) == <<base, relative>>

\* format!("{}/.config", home)
DotConfig(home) == home \o <<"/.config">>

\* The value of a colon-separated list variable: the directory names with
\* ":" between them.
RECURSIVE ListValue(_)
ListValue(ds) ==
    IF ds = <<>> THEN <<>>
    ELSE Head(ds) \o (IF Len(ds) = 1 THEN <<>>
                      ELSE <<":">> \o ListValue(Tail(ds)))

\* env::split_paths: the segments between the colons, empty ones included;
\* the empty string has one (empty) segment.
RECURSIVE SplitFrom(_, _)
SplitFrom(v, segment) ==
    IF v = <<>> THEN <<segment>>
    ELSE IF Head(v) = ":" THEN <<segment>> \o SplitFrom(Tail(v), <<>>)
    ELSE SplitFrom(Tail(v), Append(segment, Head(v)))
SplitPaths(v) == SplitFrom(v, <<>>)

\* Path::exists in the environment e.
Exists(e, path) == path \in e.files

Found(path) == [kind |-> "Ok", path |-> path]
NotFound == [kind |-> "NotFound", path |-> <<>>]
HomePanic == [kind |-> "Panic", path |-> <<>>]
NotLooked == [kind |-> "None", path |-> <<>>]

\* The loop over the paths of XDG_CONFIG_DIRS, then the default path.
RECURSIVE SearchDirs(_, _)
SearchDirs(e, paths) ==
    IF paths = <<>>
    THEN IF Exists(e, Join(EtcXdg, CONFIG_FILE_PATH))
         THEN Found(Join(EtcXdg, CONFIG_FILE_PATH))
         ELSE NotFound
    ELSE IF Exists(e, Join(Head(paths), CONFIG_FILE_PATH))
         THEN Found(Join(Head(paths), CONFIG_FILE_PATH))
         ELSE SearchDirs(e, Tail(paths))

\* get_config_path (and xdg::get_config_file, which searches alike).
GetConfigPathSystemFirst(e) ==
    IF ~e.XDG_CONFIG_HOME.set /\ ~e.HOME.set THEN HomePanic
    ELSE LET xdg_config_home == IF e.XDG_CONFIG_HOME.set
                                THEN e.XDG_CONFIG_HOME.val
                                ELSE DotConfig(e.HOME.val)
             xdg_config_dirs == IF e.XDG_CONFIG_DIRS.set
                                THEN e.XDG_CONFIG_DIRS.val
                                ELSE EtcXdg
             sys == SearchDirs(e, SplitPaths(xdg_config_dirs))
         IN  IF sys.kind = "Ok" THEN sys
             ELSE IF Exists(e, Join(xdg_config_home, CONFIG_FILE_PATH))
             THEN Found(Join(xdg_config_home, CONFIG_FILE_PATH))
             ELSE NotFound
GetConfigPath(e) ==
    IF ~e.XDG_CONFIG_HOME.set /\ ~e.HOME.set THEN HomePanic
    ELSE LET xdg_config_home == IF e.XDG_CONFIG_HOME.set
                                THEN e.XDG_CONFIG_HOME.val
                                ELSE DotConfig(e.HOME.val)
             xdg_config_dirs == IF e.XDG_CONFIG_DIRS.set
                                THEN e.XDG_CONFIG_DIRS.val
                                ELSE EtcXdg
         IN  IF Exists(e, Join(xdg_config_home, CONFIG_FILE_PATH))
             THEN Found(Join(xdg_config_home, CONFIG_FILE_PATH))
             ELSE SearchDirs(e, SplitPaths(xdg_config_dirs))

\* Environments of the lookup.
ConfigHomes == {<<"/cfg">>}
Homes == {<<"/home/u">>}
SystemDirs == {<<"/a">>, <<"/b">>, EtcXdg, <<>>}
ConfigDirLists == UNION {[1..n -> SystemDirs] : n \in 1..MaxConfigDirs}
BaseDirs == ConfigHomes \cup {DotConfig(h) : h \in Homes} \cup SystemDirs

Env(config_home, home_var, config_dirs, files) ==
    [XDG_CONFIG_HOME |-> config_home, HOME |-> home_var,
     XDG_CONFIG_DIRS |-> config_dirs, files |-> files]

LookupEnvs ==
    { Env(ch, h, cd, {Join(b, CONFIG_FILE_PATH) : b \in bs}) :
        ch \in {Unset} \cup {Set(d) : d \in ConfigHomes},
        h \in {Unset} \cup {Set(d) : d \in Homes},
        cd \in {Unset} \cup {Set(ListValue(ds)) : ds \in ConfigDirLists},
        bs \in SUBSET BaseDirs }

\* The two environments of the runs: the user's configuration file and a
\* system-wide one exist, or none does.
UserEnv == Env(Unset, Set(<<"/home/u">>), Unset,
               {Join(DotConfig(<<"/home/u">>), CONFIG_FILE_PATH),
                Join(EtcXdg, CONFIG_FILE_PATH)})
BareEnv == Env(Unset, Set(<<"/home/u">>), Unset, {})

\* ---------------------------------------------------------------- state
VARIABLES
    home,           \* <data-home>/applications: [exists, files]
    dataDirs,       \* XDG_DATA_DIRS, in order
    config,         \* the configuration file
    xdg,            \* HOME, XDG_CONFIG_HOME, XDG_CONFIG_DIRS and the paths at
                    \* which a configuration file exists
    config_path,    \* what the last get_config_path returned
    cmd,            \* the subcommand of the run: "none", "clean", "generate"
    pc,             \* where the run is: "idle", "clean", "config", "files",
                    \* "pipeline"
    result,         \* how the last run ended ("Running" during a run)
    cleanQueue,     \* entries the sweep of clean_generated_files has yet to see
    desktop_files,  \* get_desktop_files' list, the part not yet processed
    desktop_file,   \* the file of the current loop iteration: [dir, name]
    content,        \* its content as read
    new_content,    \* the pipeline's current content
    updated,        \* the pipeline's changed flag
    gen,            \* index of the next generator of the chain
    \* history, read by the properties only
    spawns,         \* child processes spawned in this run: <<file, gen>>
    codes,          \* exit statuses (success?) the current file's generators gave
    written,        \* names the Writer created in this run
    homeAtStart,    \* home when the run started
    toolCreated,    \* names in home that a run of the tool created
    prev,           \* the run before this one: [cmd, result, written, start,
                    \* end, edited]
    edited,         \* the configuration was edited since the last run began
    originals       \* source files get_desktop_files has found: [dir, name, text]

vars == <<home, dataDirs, config, xdg, config_path, cmd, pc, result,
          cleanQueue, desktop_files,
          desktop_file, content, new_content, updated, gen, spawns, codes,
          written, homeAtStart, toolCreated, prev, edited,
          originals>>

env == <<dataDirs, config, xdg>>
loop == <<desktop_file, content, new_content, updated, gen, codes>>

NoRun == [cmd |-> "none", result |-> "None", written |-> {},
          start |-> NoDir, end |-> NoDir, edited |-> FALSE]

Init ==
    /\ home \in HomeLayouts
    /\ dataDirs \in DataDirLayouts
    /\ config \in Configs
    /\ xdg = IF config.status = "missing" THEN BareEnv ELSE UserEnv
    /\ config_path = NotLooked
    /\ cmd = "none"
    /\ pc = "idle"
    /\ result = "None"
    /\ cleanQueue = <<>>
    /\ desktop_files = <<>>
    /\ desktop_file = [dir |-> 0, name |-> FooDesktop]
    /\ content = <<>>
    /\ new_content = <<>>
    /\ updated = FALSE
    /\ gen = 0
    /\ spawns = {}
    /\ codes = <<>>
    /\ written = {}
    /\ homeAtStart = home
    /\ toolCreated = {n \in DOMAIN home.files : home.files[n] = OldOverride}
    /\ prev = NoRun
    /\ edited = FALSE
    /\ originals = {}

\* The run ends with `res`: main returns (Ok or Err) or the process panics.
Finish(res) ==
    /\ pc' = "idle"
    /\ result' = res

\* main: dispatch on the subcommand; both begin with clean_generated_files,
\* whose first step is read_dir(<data-home>/applications).
ReadDirOk(dir) == dir.exists

Start(c) ==
    /\ pc = "idle"
    /\ cmd' = c
    /\ prev' = IF cmd = "none" THEN NoRun
               ELSE [cmd |-> cmd, result |-> result, written |-> written,
                     start |-> homeAtStart, end |-> home, edited |-> edited]
    /\ edited' = FALSE
    /\ homeAtStart' = home
    /\ spawns' = {}
    /\ written' = {}
    /\ IF ReadDirOk(home)
       THEN /\ pc' = "clean"
            /\ result' = "Running"
            /\ cleanQueue' \in Orders(DOMAIN home.files)
       ELSE /\ Finish("NotFound")
            /\ cleanQueue' = <<>>
    /\ UNCHANGED <<home, env, desktop_files, loop, toolCreated, originals,
                   config_path>>

MainClean == Start("clean")
MainGenerate == Start("generate")

\* clean_generated_files: one iteration of the sweep.
CleanEntry ==
    /\ pc = "clean"
    /\ cleanQueue # <<>>
    /\ LET n == Head(cleanQueue)
       IN  IF ~IsDesktop(n)
           THEN UNCHANGED <<home, toolCreated, pc, result>>
           ELSE IF ~IsUtf8(home.files[n])
           THEN Finish("InvalidData") /\ UNCHANGED <<home, toolCreated>>
           ELSE IF HasMarker(home.files[n])
           THEN /\ home' = [home EXCEPT !.files = Remove(@, n)]
                /\ toolCreated' = toolCreated \ {n}
                /\ UNCHANGED <<pc, result>>
           ELSE UNCHANGED <<home, toolCreated, pc, result>>
    /\ cleanQueue' = Tail(cleanQueue)
    /\ UNCHANGED <<env, cmd, desktop_files, loop, spawns, written,
                   homeAtStart, prev,
                   edited, originals, config_path>>

\* get_desktop_files: the .desktop entries of every data dir whose
\* applications directory exists, in XDG_DATA_DIRS order.
DirOf(i) == IF dataDirs[i].kind = "home" THEN home ELSE dataDirs[i].dir

DesktopNames(i) ==
    IF DirOf(i).exists
    THEN {n \in DOMAIN DirOf(i).files : IsDesktop(n)}
    ELSE {}

RECURSIVE DiscoveriesBackwards(_)
DiscoveriesBackwards(i) ==
    IF i > Len(dataDirs) THEN {<<>>}
    ELSE {rest \o [k \in DOMAIN q |-> [dir |-> i, name |-> q[k]]] :
             q \in Orders(DesktopNames(i)), rest \in DiscoveriesBackwards(i + 1)}
RECURSIVE Discoveries(_)
Discoveries(i) ==
    IF i > Len(dataDirs) THEN {<<>>}
    ELSE {[k \in DOMAIN q |-> [dir |-> i, name |-> q[k]]] \o rest :
             q \in Orders(DesktopNames(i)), rest \in Discoveries(i + 1)}

\* The sweep is over.  clean returns Ok; generate goes on to
\* generate_files: get_config_path, the deserialization, get_desktop_files.
CleanDone ==
    /\ pc = "clean"
    /\ cleanQueue = <<>>
    /\ cmd = "clean"
    /\ Finish("Ok")
    /\ UNCHANGED <<home, env, cmd, cleanQueue, desktop_files, loop, spawns,
                   written, homeAtStart, toolCreated, prev,
                   edited, originals, config_path>>

LoadConfig ==
    /\ pc = "clean"
    /\ cleanQueue = <<>>
    /\ cmd = "generate"
    /\ config_path' = GetConfigPath(xdg)
    /\ IF config_path'.kind = "Panic"
       THEN Finish("HomePanic") /\ UNCHANGED desktop_files
       ELSE IF config_path'.kind = "NotFound"
       THEN Finish("ConfigNotFound") /\ UNCHANGED desktop_files
       ELSE IF config.status = "malformed"
       THEN Finish("ConfigMalformed") /\ UNCHANGED desktop_files
       ELSE /\ desktop_files' \in Discoveries(1)
            /\ pc' = "files"
            /\ UNCHANGED result
    /\ UNCHANGED edited
    /\ originals' = IF pc' = "files"
                    THEN originals \cup UNION
                           {{[dir |-> i, name |-> n, text |-> DirOf(i).files[n]] :
                               n \in DesktopNames(i)} : i \in DOMAIN dataDirs}
                    ELSE originals
    /\ UNCHANGED <<home, env, cmd, cleanQueue, loop, spawns, written,
                   homeAtStart, toolCreated, prev>>

\* The loop over desktop_files: read the next file, or return Ok.
NextFile ==
    /\ pc = "files"
    /\ IF desktop_files = <<>>
       THEN Finish("Ok") /\ UNCHANGED <<desktop_files, loop>>
       ELSE LET f == Head(desktop_files)
                text == DirOf(f.dir).files[f.name]
            IN  /\ desktop_files' = Tail(desktop_files)
                /\ desktop_file' = f
                /\ IF ~IsUtf8(text)
                   THEN /\ Finish("InvalidData")
                        /\ UNCHANGED <<content, new_content, updated, gen, codes>>
                   ELSE /\ content' = text
                        /\ new_content' = text
                        /\ updated' = FALSE
                        /\ gen' = 1
                        /\ codes' = <<>>
                        /\ pc' = "pipeline"
                        /\ UNCHANGED result
    /\ UNCHANGED <<home, env, cmd, cleanQueue, spawns, written, homeAtStart,
                   toolCreated, prev,
                   edited, originals, config_path>>

\* apply_generator: the outcomes of running `command` on `input`.  spawn()
\* fails for a command that cannot be executed.  write_all to the child's
\* standard input fails (broken pipe) when a child that never reads it has
\* exited first, a race the parent may win or lose; nothing is written for
\* an empty input.
ApplyGenerator(command, input) ==
    IF ~CanSpawn(command)
    THEN {[kind |-> "SpawnErr", success |-> FALSE, stdout |-> <<>>]}
    ELSE {[kind |-> "Output", success |-> ExitSuccess(command),
           stdout |-> Stdout(command, input)]}
         \cup (IF ~ReadsStdin(command) /\ input # <<>>
               THEN {[kind |-> "WriteErr", success |-> FALSE, stdout |-> <<>>]}
               ELSE {})

\* What the loop body does with an Output: (new_content, updated) after it.
AcceptIgnoringStatus(out, cur, upd) ==
    IF FromUtf8Lossy(out.stdout) # cur
    THEN [new_content |-> FromUtf8Lossy(out.stdout), updated |-> TRUE]
    ELSE [new_content |-> cur, updated |-> upd]
AcceptResettingFlag(out, cur, upd) ==
    IF ~out.success
    THEN [new_content |-> cur, updated |-> upd]
    ELSE [new_content |-> FromUtf8Lossy(out.stdout),
          updated |-> FromUtf8Lossy(out.stdout) # cur]
Accept(out, cur, upd) ==
    IF ~out.success
    THEN [new_content |-> cur, updated |-> upd]
    ELSE IF FromUtf8Lossy(out.stdout) # cur
    THEN [new_content |-> FromUtf8Lossy(out.stdout), updated |-> TRUE]
    ELSE [new_content |-> cur, updated |-> upd]

\* The content a generator is given.
GeneratorInputOriginal == content
GeneratorInput == new_content

\* One iteration of the loop over config.generators for the current file.
PipelineStep ==
    /\ pc = "pipeline"
    /\ gen <= Len(config.generators)
    /\ LET g == config.generators[gen]
       IN  IF ~IsValidRegex(g.filter)
           THEN /\ Finish("RegexPanic")
                /\ UNCHANGED <<new_content, updated, gen, codes, spawns>>
           ELSE IF ~IsMatch(g.filter, desktop_file.name)
           THEN /\ gen' = gen + 1
                /\ UNCHANGED <<new_content, updated, codes, spawns, pc, result>>
           ELSE \E out \in ApplyGenerator(g.command, GeneratorInput) :
                  IF out.kind = "SpawnErr"
                  THEN /\ Finish("SpawnError")
                       /\ UNCHANGED <<new_content, updated, gen, codes, spawns>>
                  ELSE /\ spawns' = spawns \cup
                                      {<<Len(desktop_files), gen>>}
                       /\ IF out.kind = "WriteErr"
                          THEN /\ Finish("BrokenPipe")
                               /\ UNCHANGED <<new_content, updated, gen, codes>>
                          ELSE /\ new_content' =
                                    Accept(out, new_content, updated).new_content
                               /\ updated' =
                                    Accept(out, new_content, updated).updated
                               /\ codes' = Append(codes, out.success)
                               /\ gen' = gen + 1
                               /\ UNCHANGED <<pc, result>>
    /\ UNCHANGED <<home, env, cmd, cleanQueue, desktop_files, desktop_file,
                   content, written, homeAtStart, toolCreated, prev,
                   edited, originals, config_path>>

\* new_path.exists()
TargetExistsNever(name) == FALSE
TargetExists(name) == name \in DOMAIN home.files

\* if !updated { continue }
SkipsWrite == ~updated

\* The chain is done for the current file: skip it when nothing changed,
\* else write_new_desktop_file(&desktop_file, &new_content).
EndFile ==
    /\ pc = "pipeline"
    /\ gen > Len(config.generators)
    /\ IF SkipsWrite
       THEN /\ pc' = "files"
            /\ UNCHANGED <<home, written, toolCreated, result>>
       ELSE IF ~Stamp(new_content).ok
       THEN /\ Finish("InsertPanic")
            /\ UNCHANGED <<home, written, toolCreated>>
       ELSE IF TargetExists(desktop_file.name)
       THEN /\ pc' = "files"
            /\ UNCHANGED <<home, written, toolCreated, result>>
       ELSE IF ~home.exists
       THEN /\ Finish("NotFound")
            /\ UNCHANGED <<home, written, toolCreated>>
       ELSE /\ home' = [home EXCEPT !.files =
                           (desktop_file.name :> Stamp(new_content).text) @@ @]
            /\ written' = written \cup {desktop_file.name}
            /\ toolCreated' = toolCreated \cup {desktop_file.name}
            /\ pc' = "files"
            /\ UNCHANGED result
    /\ UNCHANGED <<env, cmd, cleanQueue, desktop_files, loop, spawns,
                   homeAtStart, prev,
                   edited, originals, config_path>>

\* Between two runs the user edits the configuration file (read anew by
\* every generate run): the first generator is removed.
ChangeConfig ==
    /\ pc = "idle"
    /\ cmd # "none"
    /\ config.status = "ok"
    /\ config.generators # <<>>
    /\ config' = [config EXCEPT !.generators = Tail(@)]
    /\ edited' = TRUE
    /\ UNCHANGED <<home, dataDirs, xdg, config_path, cmd, pc, result,
                   cleanQueue, desktop_files, loop, spawns, written,
                   homeAtStart, toolCreated, prev, originals>>

Next ==
    \/ ChangeConfig
    \/ MainClean
    \/ MainGenerate
    \/ CleanEntry
    \/ CleanDone
    \/ LoadConfig
    \/ NextFile
    \/ PipelineStep
    \/ EndFile

Spec == Init /\ [][Next]_vars

\* The configuration lookup on its own, over every environment of
\* LookupEnvs.
InitLookup ==
    /\ xdg \in LookupEnvs
    /\ config_path = NotLooked
    /\ home = NoDir
    /\ dataDirs = <<Sys(NoDir)>>
    /\ config = [status |-> "ok", generators |-> <<>>]
    /\ cmd = "none"
    /\ pc = "idle"
    /\ result = "None"
    /\ cleanQueue = <<>>
    /\ desktop_files = <<>>
    /\ desktop_file = [dir |-> 0, name |-> FooDesktop]
    /\ content = <<>>
    /\ new_content = <<>>
    /\ updated = FALSE
    /\ gen = 0
    /\ spawns = {}
    /\ codes = <<>>
    /\ written = {}
    /\ homeAtStart = home
    /\ toolCreated = {}
    /\ prev = NoRun
    /\ edited = FALSE
    /\ originals = {}

Lookup ==
    /\ config_path = NotLooked
    /\ config_path' = GetConfigPath(xdg)
    /\ UNCHANGED <<home, env, cmd, pc, result, cleanQueue, desktop_files,
                   loop, spawns, written, homeAtStart, toolCreated, prev,
                   edited, originals>>

NextLookup == Lookup

SpecLookup == InitLookup /\ [][NextLookup]_vars

\* ------------------------------------------------------------ properties
RunOver == pc = "idle" /\ cmd # "none"
Succeeded == RunOver /\ result = "Ok"
ConfigError == result \in {"ConfigNotFound", "ConfigMalformed", "RegexPanic"}
ChainDone == pc = "pipeline" /\ gen > Len(config.generators)
Kept(n) == n \in DOMAIN home'.files /\ home'.files[n] = home.files[n]

\* C1: a generate run that ends with a configuration error (no config
\* file, a malformed one, an invalid filter regex) has deleted, created and
\* modified nothing under <data-home>/applications and spawned no process.
C1_ConfigErrorTouchesNothing ==
    (RunOver /\ cmd = "generate" /\ ConfigError)
        => (home = homeAtStart /\ spawns = {})

\* C2 as claimed: no step deletes or modifies a file of the override
\* directory that the tool did not create.
C2_ForeignFilesUntouched ==
    [][\A n \in DOMAIN home.files \ toolCreated : Kept(n)]_vars

\* C2 as amended: no step modifies an existing file of the override
\* directory (the Writer never overwrites), and a step deletes a file only
\* if it is a .desktop file whose content contains the marker key, whoever
\* created it; so a file without the key is never deleted or modified.
C2_OnlyMarkedDesktopFilesDeleted ==
    [][\A n \in DOMAIN home.files :
          \/ Kept(n)
          \/ /\ n \notin DOMAIN home'.files
             /\ n.ext = "desktop"
             /\ Contains(home.files[n], KEY)]_vars

\* The Writer has met an existing file without the key at its target after
\* the sweep of the same run deleted a marked file.
C2_Witness ==
    /\ ChainDone /\ updated
    /\ desktop_file.name \in DOMAIN home.files
    /\ ~Contains(home.files[desktop_file.name], KEY)
    /\ DOMAIN home.files # DOMAIN homeAtStart.files

SecondGenerate ==
    /\ Succeeded /\ cmd = "generate"
    /\ prev.cmd = "generate" /\ prev.result = "Ok" /\ ~prev.edited

\* C3 as claimed: in a generate run that follows a generate run, the Writer
\* creates nothing.
C3_SecondRunWritesNothing == SecondGenerate => written = {}

\* C3 as amended: a successful generate run that follows a successful one
\* (same configuration and sources, generators deterministic) leaves no file
\* name the first did not leave, but its Writer does create files: the sweep
\* deleted the first run's overrides and the Writer creates exactly those
\* names again.
C3_SecondRunRewritesSameNames ==
    SecondGenerate =>
        /\ written = prev.written
        /\ DOMAIN home.files = DOMAIN prev.end.files

C3_Witness == SecondGenerate /\ written # {}

Originals ==
    IF pc = "pipeline"
    THEN {desktop_file} \cup {desktop_files[i] : i \in DOMAIN desktop_files}
    ELSE IF pc = "files"
    THEN {desktop_files[i] : i \in DOMAIN desktop_files}
    ELSE {}

C5_MissingDirIsNothingToClean ==
    (RunOver /\ ~homeAtStart.exists) =>
        /\ result # "NotFound"
        /\ cmd = "clean" => result = "Ok"

\* The files a successful sweep leaves of `files`: all but the .desktop
\* files whose content contains the key.
Swept(files) ==
    [n \in {m \in DOMAIN files :
               ~(m.ext = "desktop" /\ Contains(files[m], KEY))} |-> files[n]]

C7_SecondCleanIsNoOp ==
    (RunOver /\ cmd = "clean" /\ prev.cmd = "clean") =>
        (result = "Ok" /\ home = homeAtStart)

AllFailed(cs) == \A i \in DOMAIN cs : ~cs[i]

RECURSIVE Fold(_, _, _, _)
Fold(gens, name, cur, upd) ==
    IF gens = <<>> THEN [new_content |-> cur, updated |-> upd]
    ELSE LET g == Head(gens)
             hit == \/ g.filter = AnyFilter
                    \/ g.filter = FooFilter /\ name.stem = "foo"
             out == FromUtf8Lossy(Stdout(g.command, cur))
         IN  IF hit /\ ExitSuccess(g.command)
             THEN Fold(Tail(gens), name, out, upd \/ out # cur)
             ELSE Fold(Tail(gens), name, cur, upd)

\* C9: at the end of the chain the content and the changed flag are those
\* of the left fold from the original content; when the first of two
\* generators failed and the second succeeded and changed the content, the
\* content is the second's output on the original and changed is true.
C9_PipelineIsLeftFold ==
    ChainDone =>
        /\ new_content =
              Fold(config.generators, desktop_file.name, content, FALSE).new_content
        /\ updated =
              Fold(config.generators, desktop_file.name, content, FALSE).updated
        /\ (Len(config.generators) = 2 /\ codes = <<FALSE, TRUE>>
              /\ Stdout(config.generators[2].command, content) # content)
           => /\ new_content = Stdout(config.generators[2].command, content)
              /\ updated

\* The first generator failed, the second succeeded and changed the content.
C9_Witness ==
    ChainDone /\ Len(config.generators) = 2 /\ codes = <<FALSE, TRUE>> /\ updated

\* Both generators succeeded, each changing the content it was given.
C9_WitnessThreaded ==
    /\ ChainDone /\ codes = <<TRUE, TRUE>>
    /\ new_content # content
    /\ new_content # Stdout(config.generators[2].command, content)

\* "^foo" does not match bar.desktop.
NoMatch(g, name) == g.filter = FooFilter /\ name.stem = "bar"

\* C10: the iteration for a generator whose filter does not match the
\* file's name spawns no process and leaves the content and the changed
\* flag as they were; a file whose name no generator's filter matches gets
\* no process and no override file.
C10_NoMatchNoEffect ==
    /\ [][(pc = "pipeline" /\ gen <= Len(config.generators)
             /\ NoMatch(config.generators[gen], desktop_file.name))
            => /\ spawns' = spawns
               /\ new_content' = new_content
               /\ updated' = updated
               /\ gen' = gen + 1]_vars
    /\ [](ChainDone
            /\ (\A i \in DOMAIN config.generators :
                   NoMatch(config.generators[i], desktop_file.name))
            => /\ \A sp \in spawns : sp[1] # Len(desktop_files)
               /\ ~updated /\ new_content = content)
    /\ [][(ChainDone
             /\ \A i \in DOMAIN config.generators :
                   NoMatch(config.generators[i], desktop_file.name))
            => home' = home /\ written' = written /\ pc' = "files"]_vars

\* The chain of two generators is done for bar.desktop, which neither
\* matches, in a run that spawned processes for another file.
C10_Witness ==
    /\ ChainDone /\ Len(config.generators) = 2
    /\ \A i \in DOMAIN config.generators :
          NoMatch(config.generators[i], desktop_file.name)
    /\ spawns # {}

\* Occurrences of a token in a content.
Count(c, tok) == Cardinality({i \in DOMAIN c : c[i] = tok})

\* The step in which the Writer creates the file of the current iteration.
WriterCreates == ChainDone /\ written' # written
Created == home'.files[desktop_file.name]

\* C11 as claimed: every file the Writer creates contains the key exactly
\* once; when the Writer inserted it, it is on the line right after the
\* opening [Desktop Entry] header; a final content that already contains
\* the key is written unchanged.
C11_ExactlyOneKeyAfterHeader ==
    [][WriterCreates =>
          /\ Count(Created, KEY) = 1
          /\ Contains(new_content, KEY) => Created = new_content
          /\ (~Contains(new_content, KEY) /\ Contains(new_content, HDR)) =>
                Find(Created, KEY) = Find(Created, HDR) + 2]_vars

\* C11 as amended: every file the Writer creates contains the key at least
\* once.  A final content that already contains the key is written
\* unchanged, with as many occurrences as the generators produced.  Else
\* the Writer inserts newline, key, '=', version exactly once: right after
\* the first [Desktop Entry] header when the content has one, at byte
\* offset 15 when it has none.
C11_KeyInsertedOnceOrKept ==
    [][WriterCreates =>
          /\ Count(Created, KEY) >= 1
          /\ Contains(new_content, KEY) => Created = new_content
          /\ ~Contains(new_content, KEY) =>
                /\ Count(Created, KEY) = 1
                /\ \E k \in 0..Len(new_content) :
                      /\ Created = SubSeq(new_content, 1, k)
                                     \o <<NL, KEY, "=", VER>>
                                     \o SubSeq(new_content, k + 1, Len(new_content))
                      /\ IF Contains(new_content, HDR)
                         THEN /\ k >= 1 /\ new_content[k] = HDR
                              /\ \A j \in 1..(k - 1) : new_content[j] # HDR
                         ELSE Bytes(SubSeq(new_content, 1, k)) = 15]_vars

\* The Writer has created the current file from a content with a header
\* and without the key.
C11_Witness ==
    /\ pc = "files"
    /\ desktop_file.name \in written
    /\ Contains(new_content, HDR) /\ ~Contains(new_content, KEY)
    /\ Count(home.files[desktop_file.name], KEY) = 1
    /\ Find(home.files[desktop_file.name], KEY)
          = Find(home.files[desktop_file.name], HDR) + 2

\* The Writer has created a file that a generator had given the key twice.
C11_WitnessTwice == \E n \in written : Count(home.files[n], KEY) = 2

\* C14 as claimed: a final content with neither the key nor the header is
\* written with the marker text at content position zero, and the write
\* succeeds, also when the content is shorter than the header.
C14_HeaderlessStampedAtZero ==
    [][(/\ ChainDone /\ updated
        /\ ~Contains(new_content, KEY) /\ ~Contains(new_content, HDR)
        /\ ~TargetExists(desktop_file.name))
          => /\ result' = "Running"
             /\ desktop_file.name \in DOMAIN home'.files
             /\ home'.files[desktop_file.name] = MarkerText \o new_content]_vars

\* What the code does instead: such a content of fewer than 15 bytes makes
\* the run panic before anything is written for the file.
C14_ShortHeaderlessPanics ==
    [][(/\ ChainDone /\ updated
        /\ ~Contains(new_content, KEY) /\ ~Contains(new_content, HDR)
        /\ Bytes(new_content) < HeaderLen)
          => result' = "InsertPanic" /\ home' = home]_vars

C14_Witness ==
    /\ result = "InsertPanic"
    /\ ~Contains(new_content, HDR) /\ Bytes(new_content) < HeaderLen

\* C15 as claimed: an error reading one .desktop file does not abort the
\* sweep; every other .desktop file with the marker is still deleted.
C15_SweepSurvivesUnreadableFile ==
    (/\ RunOver
     /\ homeAtStart.exists
     /\ \E n \in DOMAIN homeAtStart.files :
           IsDesktop(n) /\ ~IsUtf8(homeAtStart.files[n]))
       => \A n \in DOMAIN homeAtStart.files :
             (IsDesktop(n) /\ IsUtf8(homeAtStart.files[n])
                 /\ HasMarker(homeAtStart.files[n]))
                => (n \notin DOMAIN home.files \/ n \in written)

\* What the code does instead: the sweep ends at the unreadable file with
\* an error, and the files listed after it stay.
C15_UnreadableFileEndsSweep ==
    [][(pc = "clean" /\ cleanQueue # <<>> /\ IsDesktop(Head(cleanQueue))
          /\ ~IsUtf8(home.files[Head(cleanQueue)]))
          => result' = "InvalidData" /\ home' = home]_vars

C15_Witness ==
    /\ result = "InvalidData" /\ cmd = "clean"
    /\ \E n \in DOMAIN home.files :
          IsDesktop(n) /\ IsUtf8(home.files[n]) /\ HasMarker(home.files[n])

\* C16 as claimed: a generator that cannot be spawned, or a source file
\* that cannot be read, aborts the run; a generator that is spawned and
\* exits non-zero never aborts it; on an abort the files already written
\* in the run stay as they were written.
C16_FailureAsymmetry ==
    [][/\ (pc = "pipeline" /\ gen <= Len(config.generators)
             /\ IsValidRegex(config.generators[gen].filter)
             /\ IsMatch(config.generators[gen].filter, desktop_file.name)
             /\ ~CanSpawn(config.generators[gen].command))
          => (pc' = "idle" /\ result' # "Ok" /\ home' = home)
       /\ (pc = "files" /\ desktop_files # <<>>
             /\ ~IsUtf8(DirOf(Head(desktop_files).dir)
                          .files[Head(desktop_files).name]))
          => (pc' = "idle" /\ result' # "Ok" /\ home' = home)
       /\ (pc = "pipeline" /\ spawns' # spawns
             /\ ~ExitSuccess(config.generators[gen].command))
          => result' = "Running"
       /\ (result = "Running" /\ result' # "Running" /\ result' # "Ok")
          => \A n \in written :
                n \in DOMAIN home'.files /\ home'.files[n] = home.files[n]]_vars

\* The part of C16 that the code keeps: spawn failures and unreadable source
\* files abort the run, and an abort leaves the files written so far alone.
C16_AbortsKeepWrittenFiles ==
    [][/\ (pc = "pipeline" /\ gen <= Len(config.generators)
             /\ IsValidRegex(config.generators[gen].filter)
             /\ IsMatch(config.generators[gen].filter, desktop_file.name)
             /\ ~CanSpawn(config.generators[gen].command))
          => (pc' = "idle" /\ result' # "Ok" /\ home' = home)
       /\ (pc = "files" /\ desktop_files # <<>>
             /\ ~IsUtf8(DirOf(Head(desktop_files).dir)
                          .files[Head(desktop_files).name]))
          => (pc' = "idle" /\ result' # "Ok" /\ home' = home)
       /\ (result = "Running" /\ result' # "Running" /\ result' # "Ok")
          => \A n \in written :
                n \in DOMAIN home'.files /\ home'.files[n] = home.files[n]]_vars

\* A generator that was spawned and exits non-zero has ended the run: the
\* write to its standard input failed with a broken pipe.
C16_Witness ==
    /\ result = "BrokenPipe"
    /\ \E s \in spawns : ~ExitSuccess(config.generators[s[2]].command)

\* The current generator matches the current file, exits successfully and
\* prints something else than the content it is given.
ChangesContent ==
    LET g == config.generators[gen]
    IN  /\ IsValidRegex(g.filter) /\ IsMatch(g.filter, desktop_file.name)
        /\ CanSpawn(g.command) /\ ExitSuccess(g.command)
        /\ FromUtf8Lossy(Stdout(g.command, new_content)) # new_content

\* C17: within one file's pipeline the changed flag is never reset; a
\* generator's step sets it exactly when the generator matches, exits
\* successfully and printed something else than it was given; while the
\* flag is false the current content is the original; at the end of the
\* chain the Writer runs iff the flag is true: with the flag false nothing
\* is written, with the flag true the file is created unless the target
\* exists or the Writer itself fails.
C17_ChangedFlagMonotone ==
    [][/\ (pc = "pipeline" /\ updated) => updated'
       /\ (pc = "pipeline" /\ ~updated /\ gen' = gen + 1)
             => /\ updated' <=> ChangesContent
                /\ updated' =>
                      new_content' = FromUtf8Lossy(
                          Stdout(config.generators[gen].command, new_content))
       /\ (pc' = "pipeline" /\ ~updated') => new_content' = content'
       /\ (ChainDone /\ ~updated)
             => (pc' = "files" /\ home' = home /\ written' = written)
       /\ (ChainDone /\ updated /\ Stamp(new_content).ok /\ home.exists
             /\ ~TargetExists(desktop_file.name))
             => /\ written' = written \cup {desktop_file.name}
                /\ home'.files[desktop_file.name] = Stamp(new_content).text
       /\ written' \ written # {} => (ChainDone /\ updated)]_vars

\* A later generator has restored the original content; the flag stayed
\* true and the Writer created the file from that content.
C17_Witness ==
    /\ pc = "files"
    /\ Len(codes) = 2 /\ codes = <<TRUE, TRUE>>
    /\ updated /\ new_content = content
    /\ desktop_file.name \in written
    /\ home.files[desktop_file.name] = Stamp(content).text

\* C12: a source file that get_desktop_files has found is never modified
\* or deleted by any sequence of generate and clean runs, also when the
\* data-home directory is one of the data dirs; what the Writer creates is
\* a path under <data-home>/applications that did not exist.
C12_OriginalsReadOnly ==
    /\ \A o \in originals :
          /\ DirOf(o.dir).exists
          /\ o.name \in DOMAIN DirOf(o.dir).files
          /\ DirOf(o.dir).files[o.name] = o.text
    /\ \A n \in written : n \notin DOMAIN homeAtStart.files
                             \/ (IsDesktop(n) /\ HasMarker(homeAtStart.files[n]))

\* A generate run over data dirs that list the data-home directory has
\* changed the content of a source file found there, a later run has swept
\* the directory, and the source file is as it was.
C12_Witness ==
    /\ \E o \in originals : /\ dataDirs[o.dir].kind = "home"
                             /\ Stdout(SedKey, o.text) # o.text
    /\ prev.cmd = "generate" /\ prev.result = "Ok"
    /\ \E s \in spawns : s[2] = 1
    /\ config.generators # <<>> /\ config.generators[1].command = SedKey
    /\ RunOver /\ cmd = "generate" /\ result = "Ok"

\* The order of a generate run: the sweep ends (or aborts) before anything
\* else happens, and spawns and writes happen in the pipeline only.
SweepComesFirst ==
       /\ (pc = "clean" /\ pc' # "clean") =>
             (cleanQueue = <<>> \/ result' = "InvalidData")
       /\ (spawns' # spawns /\ spawns' # {}) =>
             (pc = "pipeline" /\ cleanQueue = <<>>)
       /\ (written' \ written # {}) => (pc = "pipeline" /\ cleanQueue = <<>>)
       /\ (pc' = "clean") => (spawns' = {} /\ written' = {})

\* After a successful generate run: what is left under data-home.
OnlyThisRunsOverrides ==
    /\ cleanQueue # <<>> => (pc = "clean" \/ result = "InvalidData")
    /\ (Succeeded /\ cmd = "generate") =>
          /\ \A n \in DOMAIN home.files :
                (IsDesktop(n) /\ HasMarker(home.files[n])) => n \in written
          /\ toolCreated \subseteq written
          /\ prev.cmd # "none" => \A n \in prev.written :
                n \in DOMAIN home.files => n \in written

\* C18: on a generate request the sweep is over before the configuration
\* is loaded, a generator is spawned or a file is written; so after a
\* successful generate run every .desktop file of <data-home>/applications
\* with the marker key was written in that run, and nothing that an
\* earlier run (under the same or an earlier configuration) created remains
\* unless this run wrote it.
C18_SweepThenOnlyThisRunsOverrides ==
    []OnlyThisRunsOverrides /\ [][SweepComesFirst]_vars

\* A generate run has succeeded after the configuration was edited; an
\* override of the run before it is gone and another one was written anew.
C18_Witness ==
    /\ Succeeded /\ cmd = "generate"
    /\ prev.cmd = "generate" /\ prev.result = "Ok" /\ prev.edited
    /\ \E n \in prev.written : n \notin DOMAIN home.files
    /\ \E n \in prev.written : n \in written /\ home.files[n] # prev.end.files[n]

\* The candidates of a lookup whose config-home directory is `base` and
\* whose config-dirs list is `dirs`, in the order of the search.
Candidates(base, dirs) ==
    <<Join(base, CONFIG_FILE_PATH)>>
      \o [i \in DOMAIN dirs |-> Join(dirs[i], CONFIG_FILE_PATH)]
      \o <<Join(EtcXdg, CONFIG_FILE_PATH)>>

\* The lookup returned the first candidate that exists, or NotFound when
\* none exists.
FirstExisting(cands) ==
    /\ config_path.kind \in {"Ok", "NotFound"}
    /\ config_path.kind = "NotFound" <=> \A i \in DOMAIN cands : cands[i] \notin xdg.files
    /\ config_path.kind = "Ok" =>
          \E i \in DOMAIN cands :
             /\ config_path.path = cands[i]
             /\ cands[i] \in xdg.files
             /\ \A j \in 1..(i - 1) : cands[j] \notin xdg.files
    /\ cands[1] \in xdg.files => config_path = Found(cands[1])

\* C13: the lookup returns the first existing base/relative_name over the
\* config-home directory (XDG_CONFIG_HOME, by default <home>/.config),
\* each directory of the config-dirs list (XDG_CONFIG_DIRS, by default
\* /etc/xdg), then /etc/xdg; a file under config-home wins over any
\* other; the lookup is NotFound exactly when no candidate exists.
C13_FirstExistingCandidate ==
    (config_path # NotLooked /\ (xdg.XDG_CONFIG_HOME.set \/ xdg.HOME.set)) =>
        \A base \in ConfigHomes \cup {DotConfig(h) : h \in Homes} :
          \A dirs \in ConfigDirLists \cup {<<EtcXdg>>} :
            (/\ base = IF xdg.XDG_CONFIG_HOME.set THEN xdg.XDG_CONFIG_HOME.val
                       ELSE DotConfig(xdg.HOME.val)
             /\ IF xdg.XDG_CONFIG_DIRS.set
                THEN xdg.XDG_CONFIG_DIRS.val = ListValue(dirs)
                ELSE dirs = <<EtcXdg>>)
               => FirstExisting(Candidates(base, dirs))

\* A lookup with nothing under config-home has returned the file of the
\* second directory of a two-directory list, although /etc/xdg has one too.
C13_Witness ==
    /\ xdg.XDG_CONFIG_DIRS = Set(ListValue(<< <<"/a">>, <<"/b">> >>))
    /\ xdg.files = {Join(<<"/b">>, CONFIG_FILE_PATH), Join(EtcXdg, CONFIG_FILE_PATH)}
    /\ config_path = Found(Join(<<"/b">>, CONFIG_FILE_PATH))

\* A lookup has preferred the file under <home>/.config to one in a listed
\* directory.
C13_WitnessUserWins ==
    /\ ~xdg.XDG_CONFIG_HOME.set
    /\ Join(<<"/a">>, CONFIG_FILE_PATH) \in xdg.files
    /\ xdg.XDG_CONFIG_DIRS = Set(ListValue(<< <<"/a">> >>))
    /\ config_path = Found(Join(DotConfig(<<"/home/u">>), CONFIG_FILE_PATH))

\* The data dirs other than data-home whose applications directory holds
\* a .desktop file named n, and what the chain makes of each copy.
CopiesOf(n) ==
    {i \in DOMAIN dataDirs : dataDirs[i].kind = "sys" /\ n \in DesktopNames(i)}
Derived(i, n) == Fold(config.generators, n, DirOf(i).files[n], FALSE)
FirstChanged(n) ==
    {i \in CopiesOf(n) :
        /\ Derived(i, n).updated
        /\ \A j \in CopiesOf(n) : j < i => ~Derived(j, n).updated}

\* No file named n was left under data-home by the sweep of this run.
SweptAway(n) == n \notin DOMAIN Swept(homeAtStart.files)

OverrideFromFirstChanged ==
    /\ pc = "files" =>
          \A i, j \in DOMAIN desktop_files :
             i < j => desktop_files[i].dir <= desktop_files[j].dir
    /\ (Succeeded /\ cmd = "generate" /\ ~edited) =>
          \A n \in {FooDesktop, BarDesktop} :
             SweptAway(n) =>
                /\ FirstChanged(n) = {} => n \notin DOMAIN home.files
                /\ \A i \in FirstChanged(n) :
                      /\ n \in written
                      /\ home.files[n] = Stamp(Derived(i, n).new_content).text

EachCopyOnItsOwn ==
    /\ (pc = "files" /\ pc' = "pipeline") =>
          /\ desktop_file' = Head(desktop_files)
          /\ content' = DirOf(desktop_file'.dir).files[desktop_file'.name]
          /\ new_content' = content' /\ ~updated'
    /\ (pc # "idle" /\ pc' # "idle") =>
          \A n \in written : n \in DOMAIN home'.files
                               /\ home'.files[n] = home.files[n]

\* C19: the copies of a name are run through the pipeline one by one in
\* data-dirs order, each from its own content with changed = false; when
\* no file of that name survived the sweep, the override left after a
\* successful generate is the stamped output of the first copy in that
\* order whose pipeline reported changed = true (none is left if no copy
\* changed), whatever later copies give; a file written in the run is not
\* replaced later in the run.
C19_FirstChangedCopyWins ==
    []OverrideFromFirstChanged /\ [][EachCopyOnItsOwn]_vars

\* The copy of the first data dir was unchanged and the override derives
\* from the second data dir's copy.
C19_Witness ==
    /\ Succeeded /\ cmd = "generate" /\ ~edited
    /\ SweptAway(FooDesktop)
    /\ CopiesOf(FooDesktop) = {1, 2}
    /\ ~Derived(1, FooDesktop).updated
    /\ Derived(2, FooDesktop).updated
    /\ FooDesktop \in written
    /\ home.files[FooDesktop] = Stamp(Derived(2, FooDesktop).new_content).text

\* Both copies change, to different contents, and the override is the
\* first one's.
C19_WitnessFirstOfTwo ==
    /\ Succeeded /\ cmd = "generate" /\ ~edited
    /\ SweptAway(FooDesktop)
    /\ CopiesOf(FooDesktop) = {1, 2}
    /\ Derived(1, FooDesktop).updated /\ Derived(2, FooDesktop).updated
    /\ Derived(1, FooDesktop).new_content # Derived(2, FooDesktop).new_content
    /\ home.files[FooDesktop] = Stamp(Derived(1, FooDesktop).new_content).text

\* C20: two successive successful generate runs, with the configuration
\* and the source files unchanged between them, leave under
\* <data-home>/applications the files the first run left, each with the
\* same content; the second run has deleted the marked files and written
\* the same ones again.
C20_GenerateIdempotent ==
    SecondGenerate =>
        /\ home = prev.end
        /\ written = prev.written
        /\ \A n \in written : /\ n \in DOMAIN homeAtStart.files
                             /\ n \notin DOMAIN Swept(homeAtStart.files)

\* The second of two successful generate runs has deleted and rewritten
\* an override, next to a user's file that both runs left alone.
C20_Witness ==
    /\ SecondGenerate
    /\ written # {}
    /\ \E n \in DOMAIN home.files : n \notin written

=============================================================================
